---- MODULE Spec2Model ----
(***************************************************************************)
(* TaskTracker probe service (src/function_app.py): the three HTTP         *)
(* handlers health_check, list_probes and predict over a read-only probe   *)
(* repository models/trained_linear_probes/<model>/<layer>/.               *)
(* predict builds the path of the artifact from the request's model        *)
(* string, so the files of the host outside that layout are part of the    *)
(* state as well.                                                          *)
(*                                                                         *)
(* Representation.                                                         *)
(*  - A directory name that the code inspects character by character (a    *)
(*    layer directory) is a sequence of characters, so that str.isdigit,   *)
(*    int(), str() and the ordering used by sorted() are computed and not  *)
(*    assumed.  The character "sup2" stands for U+00B2 (superscript two),  *)
(*    for which str.isdigit() is True and int() raises ValueError.         *)
(*  - A float is an integer number of hundredths: 100 is 1.0.              *)
(*  - An activation list is [len, val, bad]: len elements, all equal to    *)
(*    val, element 0 being a non-numeric JSON string when bad.             *)
(*  - A path is the sequence of its components from the filesystem root,   *)
(*    each a string: <<"srv", "2", "model.pickle">> is                     *)
(*    /srv/2/model.pickle.                                                 *)
(***************************************************************************)
EXTENDS Integers, Sequences, FiniteSets, TLC

VARIABLES
  repo,        \* the probe repository on disk (never written by the service)
  stray,       \* the model.pickle files of the host that are not at
               \* <root>/<model>/<layer>/model.pickle (never written either)
  pool,        \* which request bodies the clients of this run send
  workers,     \* the host's workers that run predict invocations
  inv,         \* inv[w]: the predict invocation of worker w (its locals)
  probesResp,  \* the last response of GET /v1/probes, or NoResp
  healthResp   \* the last response of GET /health, or NoResp

vars == <<repo, stray, pool, workers, inv, probesResp, healthResp>>

(***************************************************************************)
(* Bounds of the model.                                                    *)
(***************************************************************************)
MaxWorkers == 2

Workers == 1..MaxWorkers

NoResp == [status |-> 0]

(***************************************************************************)
(* Characters and names.                                                   *)
(***************************************************************************)
DecimalDigits == <<"0", "1", "2", "3", "4", "5", "6", "7", "8", "9">>

IsDecimal(c) == \E i \in 1..Len(DecimalDigits) : DecimalDigits[i] = c

DigitVal(c) == (CHOOSE i \in 1..Len(DecimalDigits) : DecimalDigits[i] = c) - 1

\* The code point of a character: str comparison orders by code point.
CharCode(c) ==
  IF IsDecimal(c) THEN 48 + DigitVal(c)
  ELSE IF c = "x" THEN 120
  ELSE 178   \* "sup2", U+00B2

\* str.isdigit() of one character: the decimal digits and the digit-like
\* characters such as U+00B2.
CharIsDigit(c) == IsDecimal(c) \/ c = "sup2"

\* str.isdigit(): non-empty and every character a digit.
isdigit(name) == Len(name) > 0 /\ \A i \in 1..Len(name) : CharIsDigit(name[i])

\* int(name) succeeds exactly on decimal digit strings (no sign or blanks occur
\* among the names of the model).
IntParses(name) == Len(name) > 0 /\ \A i \in 1..Len(name) : IsDecimal(name[i])

RECURSIVE int(_)
int(name) ==
  IF Len(name) = 0 THEN 0
  ELSE 10 * int(SubSeq(name, 1, Len(name) - 1)) + DigitVal(name[Len(name)])

\* str(n) of a non-negative integer.
RECURSIVE str(_)
str(n) ==
  IF n < 10 THEN <<DecimalDigits[n + 1]>>
  ELSE str(n \div 10) \o <<DecimalDigits[(n % 10) + 1]>>

\* A name as a path component.  TLC cannot build a string from characters, so
\* the names that occur in the repositories and requests are listed.
Text(name) ==
  CASE name = <<"2">> -> "2"
    [] name = <<"1", "0">> -> "10"
    [] name = <<"x">> -> "x"
    [] name = <<"sup2">> -> "sup2"

\* a < b for two names, as Python compares str (and so sibling Path objects).
RECURSIVE NameLess(_, _)
NameLess(a, b) ==
  IF Len(a) = 0 THEN Len(b) > 0
  ELSE IF Len(b) = 0 THEN FALSE
  ELSE IF CharCode(a[1]) # CharCode(b[1]) THEN CharCode(a[1]) < CharCode(b[1])
  ELSE NameLess(Tail(a), Tail(b))

\* sorted(model_dir.iterdir()): the entries, whatever order the directory
\* yields them in, ordered by Path comparison.
RECURSIVE sorted(_)
sorted(S) ==
  IF S = {} THEN <<>>
  ELSE LET m == CHOOSE x \in S : \A y \in S \ {x} : NameLess(x, y)
       IN  <<m>> \o sorted(S \ {m})

(***************************************************************************)
(* The probe repository.  repo.exists: the root directory exists.          *)
(* repo.models: the entries of the root, by name; an entry is a regular    *)
(* file (isDir FALSE) or a model directory with its own entries            *)
(* (layers), by name; such an entry is a regular file or a directory with  *)
(* or without config.json (config) and model.pickle (pickle: the kind of   *)
(* the pickled object, or "none" when the file is absent).                 *)
(***************************************************************************)
NoPickle == "none"

FileEntry == [isDir |-> FALSE, config |-> FALSE, pickle |-> NoPickle]

LayerDir(config, pickle) == [isDir |-> TRUE, config |-> config, pickle |-> pickle]

ModelDir(layers) == [isDir |-> TRUE, layers |-> layers]

ModelFile == [isDir |-> FALSE, layers |-> <<>>]

\* Mutant of ConfigExists: the layer is listed without looking for config.json.
ConfigNotChecked(entry) == entry.isDir

\* config_file.exists() and model_file.exists() for a layer directory entry.
ConfigExists(entry) == entry.isDir /\ entry.config

ModelFileExists(entry) == entry.isDir /\ entry.pickle # NoPickle

(***************************************************************************)
(* _get_available_layers: the loop over sorted(model_dir.iterdir()).  The   *)
(* result is [exc, layers]: exc is "none", or the exception that int()     *)
(* raised, which ends the loop.                                            *)
(***************************************************************************)
RECURSIVE LayerLoop(_, _, _)
LayerLoop(model_dir, names, layers) ==
  IF names = <<>> THEN [exc |-> "none", layers |-> layers]
  ELSE LET layer_dir == model_dir.layers[Head(names)]
       IN  IF layer_dir.isDir /\ isdigit(Head(names))
           THEN IF ~IntParses(Head(names))
                THEN [exc |-> "ValueError", layers |-> layers]
                ELSE IF ConfigExists(layer_dir) /\ ModelFileExists(layer_dir)
                     THEN LayerLoop(model_dir, Tail(names),
                                    Append(layers, int(Head(names))))
                     ELSE LayerLoop(model_dir, Tail(names), layers)
           ELSE LayerLoop(model_dir, Tail(names), layers)

\* The order in which _get_available_layers visits the entries.
LayerOrder(model_dir) == sorted(DOMAIN model_dir.layers)

_get_available_layers(model_dir) == LayerLoop(model_dir, LayerOrder(model_dir), <<>>)

(***************************************************************************)
(* _discover_probes: order is the order in which probes_dir.iterdir()      *)
(* yields the entries of the root (any order).  Result: [exc, probes].     *)
(***************************************************************************)
ProbeInfo(model, layers) ==
  [model |-> model, probe_type |-> "linear_probe", layers |-> layers]

\* The test `if layers:` of _discover_probes.
HasLayers(layers) == layers # <<>>

RECURSIVE ModelLoop(_, _, _)
ModelLoop(r, order, probes) ==
  IF order = <<>> THEN [exc |-> "none", probes |-> probes]
  ELSE LET model_dir == r.models[Head(order)]
       IN  IF ~model_dir.isDir THEN ModelLoop(r, Tail(order), probes)
           ELSE LET got == _get_available_layers(model_dir)
                IN  IF got.exc # "none" THEN [exc |-> got.exc, probes |-> probes]
                    ELSE IF HasLayers(got.layers)
                         THEN ModelLoop(r, Tail(order),
                                Append(probes, ProbeInfo(Head(order), got.layers)))
                         ELSE ModelLoop(r, Tail(order), probes)

\* The test `if not probes_dir.exists()` of _discover_probes.
RootMissing(r) == ~r.exists

_discover_probes(r, order) ==
  IF RootMissing(r) THEN [exc |-> "none", probes |-> <<>>]
  ELSE ModelLoop(r, order, <<>>)

\* The orders in which iterdir() may yield the entries of the root.
IterOrders(r) ==
  LET names == DOMAIN r.models
      n == Cardinality(names)
  IN  {o \in [1..n -> names] : \A i, j \in 1..n : i # j => o[i] # o[j]}

(***************************************************************************)
(* Responses: [status, body].                                              *)
(***************************************************************************)
ListProbesError(exc) ==
  [status |-> 500,
   body |-> [error |-> [text |-> "Internal server error: ", exc |-> exc]]]

\* list_probes, for one iteration order of the root.
list_probes(r, order) ==
  LET got == _discover_probes(r, order)
  IN  IF got.exc = "none"
      THEN [status |-> 200, body |-> [probes |-> got.probes]]
      ELSE ListProbesError(got.exc)

\* health_check.
health_check ==
  [status |-> 200,
   body |-> [status |-> "healthy", message |-> "TaskTracker API is running"]]

(***************************************************************************)
(* Request bodies.  kind "garbage": bytes that are not JSON; "array": JSON *)
(* that is not an object; "object": a JSON object whose five members are   *)
(* JSON values, Missing when the member is absent.                         *)
(***************************************************************************)
Missing == [t |-> "missing"]

JStr(s) == [t |-> "str", s |-> s]

JInt(n) == [t |-> "int", n |-> n]

JList(len, val, bad) == [t |-> "list", len |-> len, val |-> val, bad |-> bad]

Body(kind, model, probe_type, layer, primary, text) ==
  [kind |-> kind, model |-> model, probe_type |-> probe_type, layer |-> layer,
   primary_activations |-> primary, text_activations |-> text]

\* len(v) != 4096 in validate_activations_length.
RequiredLen == 4096

(***************************************************************************)
(* pydantic's validation of PredictRequest.  An error is [type, loc, msg]; *)
(* loc is the path to the offending value: the member's name, then the     *)
(* index of the element for an element of a list; it is empty for an       *)
(* error about the body as a whole.                                        *)
(***************************************************************************)
LocName(n) == [name |-> n]

LocIndex(i) == [index |-> i]

Msg(type) ==
  CASE type = "missing" -> "Field required"
    [] type = "string_type" -> "Input should be a valid string"
    [] type = "int_type" -> "Input should be a valid integer"
    [] type = "list_type" -> "Input should be a valid list"
    [] type = "float_parsing" -> "Input should be a valid number, unable to parse string as a number"
    [] type = "greater_than_equal" -> "Input should be greater than or equal to 0"
    [] type = "less_than_equal" -> "Input should be less than or equal to 1"
    [] type = "value_error" -> "Value error, Activations must have exactly 4096 dimensions"
    [] type = "json_invalid" -> "Invalid JSON"
    [] OTHER -> "Input should be an object"

Err(type, loc) == [type |-> type, loc |-> loc, msg |-> Msg(type)]

\* model: str = Field(...)
ModelErrors(v) ==
  IF v = Missing THEN <<Err("missing", <<LocName("model")>>)>>
  ELSE IF v.t # "str" THEN <<Err("string_type", <<LocName("model")>>)>>
  ELSE <<>>

\* probe_type: str = Field(default="linear_probe")
ProbeTypeErrors(v) ==
  IF v = Missing \/ v.t = "str" THEN <<>>
  ELSE <<Err("string_type", <<LocName("probe_type")>>)>>

ProbeTypeValue(v) == IF v = Missing THEN "linear_probe" ELSE v.s

\* Field(..., ge=0) of layer.
LayerInRange(n) == n >= 0

\* layer: int = Field(..., ge=0)
LayerErrors(v) ==
  IF v = Missing THEN <<Err("missing", <<LocName("layer")>>)>>
  ELSE IF v.t # "int" THEN <<Err("int_type", <<LocName("layer")>>)>>
  ELSE IF ~LayerInRange(v.n) THEN <<Err("greater_than_equal", <<LocName("layer")>>)>>
  ELSE <<>>

\* validate_activations_length: the list is accepted.
validate_activations_length(v) == v.len = RequiredLen

\* List[float] with the field validator, which pydantic runs only on a list
\* whose elements all validated as floats.
ActivationErrors(name, v) ==
  IF v = Missing THEN <<Err("missing", <<LocName(name)>>)>>
  ELSE IF v.t # "list" THEN <<Err("list_type", <<LocName(name)>>)>>
  ELSE IF v.bad THEN <<Err("float_parsing", <<LocName(name), LocIndex(0)>>)>>
  ELSE IF ~validate_activations_length(v) THEN <<Err("value_error", <<LocName(name)>>)>>
  ELSE <<>>

\* The errors of the members of a JSON object, in the order of the fields.
ObjectErrors(b) ==
  ModelErrors(b.model) \o ProbeTypeErrors(b.probe_type) \o LayerErrors(b.layer)
    \o ActivationErrors("primary_activations", b.primary_activations)
    \o ActivationErrors("text_activations", b.text_activations)

\* Mutant of RequestErrors: validation stops at the first violated constraint.
RequestErrorsFirstOnly(b) ==
  IF b.kind = "garbage" THEN <<Err("json_invalid", <<>>)>>
  ELSE IF b.kind = "array" THEN <<Err("model_type", <<>>)>>
  ELSE IF ObjectErrors(b) = <<>> THEN <<>>
  ELSE <<Head(ObjectErrors(b))>>

\* The errors of PredictRequest.model_validate_json(req.get_body()).
RequestErrors(b) ==
  IF b.kind = "garbage" THEN <<Err("json_invalid", <<>>)>>
  ELSE IF b.kind = "array" THEN <<Err("model_type", <<>>)>>
  ELSE ObjectErrors(b)

\* The PredictRequest that model_validate_json returns for a body without errors.
RequestData(b) ==
  [model |-> b.model.s, probe_type |-> ProbeTypeValue(b.probe_type),
   layer |-> b.layer.n,
   primary_activations |-> [len |-> b.primary_activations.len,
                            val |-> b.primary_activations.val],
   text_activations |-> [len |-> b.text_activations.len,
                         val |-> b.text_activations.val]]

(***************************************************************************)
(* The outcome of a handler: a response, or an exception that leaves it.   *)
(***************************************************************************)
Response(status, body) == [kind |-> "response", status |-> status, body |-> body]

Raised(exc) == [kind |-> "raised", exc |-> exc]

\* err["loc"][-1] of the except ValidationError clause.
DetailField(err) == err.loc[Len(err.loc)]

RECURSIVE Details(_)
Details(errors) ==
  IF errors = <<>> THEN <<>>
  ELSE <<[field |-> DetailField(Head(errors)), message |-> Head(errors).msg]>>
         \o Details(Tail(errors))

\* The except ValidationError clause: the list comprehension indexes loc of
\* every error, and an empty loc raises IndexError inside the clause, which no
\* other except clause of the same try statement handles.
OnValidationError(errors) ==
  IF \E i \in 1..Len(errors) : errors[i].loc = <<>>
  THEN Raised("IndexError")
  ELSE Response(400, [error |-> [text |-> "Validation failed"],
                      details |-> Details(errors)])

\* The except Exception clause.
OnException(exc) ==
  Response(500, [error |-> [text |-> "Internal server error: ", exc |-> exc]])

(***************************************************************************)
(* Probe artifacts.  The pickled object is opaque to the service; the      *)
(* kinds below are the shapes it can have.  Each method is a fixed         *)
(* function of the object and its input (the artifact holds no state that  *)
(* an invocation changes).                                                 *)
(*   "logreg"     predict_proba with 2 columns, and predict                *)
(*   "softmax3"   predict_proba with 3 columns, and predict                *)
(*   "onecol"     predict_proba with 1 column only                         *)
(*   "regressor"  predict only; its value is not confined to [0, 1]        *)
(*   "opaque"     neither method                                           *)
(*   "corrupt"    bytes that pickle.load cannot deserialize                *)
(***************************************************************************)
Kinds == {"logreg", "softmax3", "onecol", "regressor", "opaque", "corrupt"}

\* hasattr(probe_model, "predict_proba") and hasattr(probe_model, "predict").
HasPredictProba(probe_model) == probe_model.kind \in {"logreg", "softmax3", "onecol"}

HasPredict(probe_model) == probe_model.kind \in {"logreg", "softmax3", "regressor"}

\* probe_model.predict_proba(delta)[0]: row 0, in hundredths.
PredictProbaRow(probe_model, delta) ==
  CASE probe_model.kind = "logreg" -> <<50 - 30 * delta.val, 50 + 30 * delta.val>>
    [] probe_model.kind = "softmax3" -> <<30, 40 + 20 * delta.val, 30 - 20 * delta.val>>
    [] OTHER -> <<100>>

\* probe_model.predict(delta): the vector of results, in hundredths.
PredictVector(probe_model, delta) ==
  CASE probe_model.kind = "regressor" -> <<50 + 100 * delta.val>>
    [] probe_model.kind = "softmax3" -> <<IF delta.val < 0 THEN 200 ELSE 100>>
    [] OTHER -> <<IF delta.val < 0 THEN 0 ELSE 100>>

\* pickle.load(f) succeeds, and the object it returns.
Unpickles(kind) == kind # "corrupt"

Unpickled(kind) == [kind |-> kind]

(***************************************************************************)
(* predict, stage by stage.  The locals of an invocation:                  *)
(*   body, request_data, model_file, probe_model, predicted_probability,   *)
(*   result; None before the assignment.  predicted_probability is a float *)
(*   object holding a number of hundredths.                                *)
(***************************************************************************)
None == <<>>

Float(hundredths) == [hundredths |-> hundredths]

Idle ==
  [pc |-> "idle", body |-> None, request_data |-> None, model_file |-> None,
   probe_model |-> None, predicted_probability |-> None, result |-> None]

\* Path(__file__).parent, and the repository root below it.
AppDir == <<"app">>

ProbesRoot == AppDir \o <<"models", "trained_linear_probes">>

\* How pathlib reads the str operand `model` of the / operator: anchored when
\* it starts with a separator, split at the separators, "" having no
\* component; ".." is kept as a component.  The strings with a separator or a
\* special meaning that the requests of the runs carry are listed; any other
\* string is one component.
ModelParts(model) ==
  CASE model = "" -> [anchored |-> FALSE, parts |-> <<>>]
    [] model = ".." -> [anchored |-> FALSE, parts |-> <<"..">>]
    [] model = "m1/2" -> [anchored |-> FALSE, parts |-> <<"m1", "2">>]
    [] model = "/srv" -> [anchored |-> TRUE, parts |-> <<"srv">>]
    [] OTHER -> [anchored |-> FALSE, parts |-> <<model>>]

\* base / operand: an anchored operand replaces base.
JoinPath(base, operand) ==
  IF operand.anchored THEN operand.parts ELSE base \o operand.parts

\* probe_dir = Path(__file__).parent / "models" / "trained_linear_probes"
\*             / request_data.model / str(request_data.layer)
ProbeDir(request_data) ==
  JoinPath(ProbesRoot, ModelParts(request_data.model))
    \o <<Text(str(request_data.layer))>>

\* model_file = probe_dir / "model.pickle"
ModelFilePath(probe_dir) == probe_dir \o <<"model.pickle">>

\* The model.pickle files of the host: those of the repository r and the
\* files s outside its layout, each with its path and the kind of its content.
RepoFiles(r) ==
  IF ~r.exists THEN {}
  ELSE UNION {{[path |-> ProbesRoot \o <<m, Text(n), "model.pickle">>,
                pickle |-> r.models[m].layers[n].pickle] :
                 n \in {k \in DOMAIN r.models[m].layers :
                          ModelFileExists(r.models[m].layers[k])}} :
              m \in {k \in DOMAIN r.models : r.models[k].isDir}}

HostFiles(r, s) == RepoFiles(r) \cup s

IsPrefix(d, path) == Len(d) <= Len(path) /\ SubSeq(path, 1, Len(d)) = d

\* d is a directory of the host: an ancestor of a file, the directory of the
\* application, or a directory of the repository.
IsDirectory(r, s, d) ==
  \/ IsPrefix(d, AppDir)
  \/ r.exists /\ IsPrefix(d, ProbesRoot)
  \/ /\ r.exists
     /\ \E m \in DOMAIN r.models :
          /\ r.models[m].isDir
          /\ \/ d = ProbesRoot \o <<m>>
             \/ \E n \in DOMAIN r.models[m].layers :
                  /\ r.models[m].layers[n].isDir
                  /\ d = ProbesRoot \o <<m, Text(n)>>
  \/ \E f \in s : Len(d) < Len(f.path) /\ IsPrefix(d, f.path)

\* The operating system's walk along a path, as exists() and open() do it:
\* ".." leaves the directory reached so far, which has to exist, for its parent
\* (the filesystem root is its own parent).  The result is [ok, path]: the
\* walk succeeded as far as the last component, and the file it names.
RECURSIVE Walk(_, _, _, _)
Walk(r, s, at, rest) ==
  IF rest = <<>> THEN [ok |-> TRUE, path |-> at]
  ELSE IF Head(rest) = ".."
       THEN IF ~IsDirectory(r, s, at) THEN [ok |-> FALSE, path |-> at]
            ELSE Walk(r, s, IF at = <<>> THEN at ELSE SubSeq(at, 1, Len(at) - 1),
                      Tail(rest))
       ELSE Walk(r, s, Append(at, Head(rest)), Tail(rest))

\* The file that model_file names on the host.
Located(r, s, model_file) == Walk(r, s, <<>>, model_file)

\* model_file.exists()
ModelFilePresent(r, s, model_file) ==
  /\ Located(r, s, model_file).ok
  /\ \E f \in HostFiles(r, s) : f.path = Located(r, s, model_file).path

\* The content of model_file, which open(model_file, "rb") reads.
PickleAt(r, s, model_file) ==
  (CHOOSE f \in HostFiles(r, s) : f.path = Located(r, s, model_file).path).pickle

NotFound(request_data) ==
  Response(404, [error |-> [text |-> "Probe not found for model '{model}' at layer {layer}",
                            model |-> request_data.model,
                            layer |-> request_data.layer]])

Unsupported ==
  Response(500, [error |-> [text |-> "Probe model does not support prediction"]])

\* Mutant of Delta: primary_activations is read from a buffer shared by the
\* invocations, which holds the activations of the lowest worker that has a
\* validated request.
DeltaShared(request_data) ==
  LET holders == {w \in Workers : inv[w].request_data # None}
      first == CHOOSE w \in holders : \A v \in holders : w <= v
  IN  [len |-> request_data.primary_activations.len,
       val |-> inv[first].request_data.primary_activations.val
                 - request_data.text_activations.val]

\* delta = primary_activations - text_activations, reshaped to one row.
Delta(request_data) ==
  [len |-> request_data.primary_activations.len,
   val |-> request_data.primary_activations.val - request_data.text_activations.val]

\* Mutant of ProbaColumn: the last column instead of column 1.
ProbaColumnLast(row) == row[Len(row)]

\* The column of row 0 that predict reads from predict_proba's result.
ProbaColumn(row) == IF Len(row) > 1 THEN row[2] ELSE row[1]

\* The branch of predict that produces predicted_probability.
ProbabilityOf(probe_model, delta) ==
  IF HasPredictProba(probe_model)
  THEN ProbaColumn(PredictProbaRow(probe_model, delta))
  ELSE PredictVector(probe_model, delta)[1]

\* The artifact supports one of the two invocations.
Supported(probe_model) == HasPredictProba(probe_model) \/ HasPredict(probe_model)

\* Mutant of ProbabilityErrors: the response model does not bound the value.
ProbabilityUnchecked(p) == <<>>

\* PredictResponse's Field(..., ge=0.0, le=1.0), in hundredths.
ProbabilityErrors(p) ==
  IF p < 0 THEN <<Err("greater_than_equal", <<LocName("predicted_probability")>>)>>
  ELSE IF p > 100 THEN <<Err("less_than_equal", <<LocName("predicted_probability")>>)>>
  ELSE <<>>

\* response.model_dump_json() of the PredictResponse.
PredictResponse(request_data, p) ==
  [model |-> request_data.model, probe_type |-> request_data.probe_type,
   layer |-> request_data.layer, predicted_probability |-> p]

(***************************************************************************)
(* The handlers as actions.  A predict invocation runs on worker w; the    *)
(* host may run several at once, each with its own locals.                 *)
(***************************************************************************)
Finish(w, outcome) ==
  inv' = [inv EXCEPT ![w].pc = "done", ![w].result = outcome]

\* request_data = PredictRequest.model_validate_json(req.get_body())
Validate(w) ==
  /\ inv[w].pc = "validate"
  /\ LET errors == RequestErrors(inv[w].body)
     IN  IF errors # <<>>
         THEN Finish(w, OnValidationError(errors))
         ELSE inv' = [inv EXCEPT ![w].pc = "resolve",
                                 ![w].request_data = RequestData(inv[w].body)]
  /\ UNCHANGED <<repo, stray, pool, workers, probesResp, healthResp>>

\* model_file = probe_dir / "model.pickle"; if not model_file.exists(): 404
Resolve(w) ==
  /\ inv[w].pc = "resolve"
  /\ LET model_file == ModelFilePath(ProbeDir(inv[w].request_data))
     IN  IF ~ModelFilePresent(repo, stray, model_file)
         THEN inv' = [inv EXCEPT ![w].pc = "done", ![w].model_file = model_file,
                                 ![w].result = NotFound(inv[w].request_data)]
         ELSE inv' = [inv EXCEPT ![w].pc = "load", ![w].model_file = model_file]
  /\ UNCHANGED <<repo, stray, pool, workers, probesResp, healthResp>>

\* probe_model = pickle.load(f).  The repository does not change between
\* model_file.exists() and open(), so open() finds the file and the except
\* FileNotFoundError clause is not entered.
Load(w) ==
  /\ inv[w].pc = "load"
  /\ LET kind == PickleAt(repo, stray, inv[w].model_file)
     IN  IF ~Unpickles(kind)
         THEN Finish(w, OnException("UnpicklingError"))
         ELSE inv' = [inv EXCEPT ![w].pc = "invoke", ![w].probe_model = Unpickled(kind)]
  /\ UNCHANGED <<repo, stray, pool, workers, probesResp, healthResp>>

\* delta, then predict_proba or predict, or the unsupported-probe response.
Invoke(w) ==
  /\ inv[w].pc = "invoke"
  /\ IF ~Supported(inv[w].probe_model)
     THEN Finish(w, Unsupported)
     ELSE inv' = [inv EXCEPT ![w].pc = "respond",
                             ![w].predicted_probability =
                               Float(ProbabilityOf(inv[w].probe_model,
                                                   Delta(inv[w].request_data)))]
  /\ UNCHANGED <<repo, stray, pool, workers, probesResp, healthResp>>

\* response = PredictResponse(...); return 200.  The constructor validates
\* predicted_probability and raises ValidationError inside the try statement.
Respond(w) ==
  /\ inv[w].pc = "respond"
  /\ LET errors == ProbabilityErrors(inv[w].predicted_probability.hundredths)
     IN  IF errors # <<>>
         THEN Finish(w, OnValidationError(errors))
         ELSE Finish(w, Response(200,
                PredictResponse(inv[w].request_data,
                                inv[w].predicted_probability.hundredths)))
  /\ UNCHANGED <<repo, stray, pool, workers, probesResp, healthResp>>

\* The host sends the result to the client; the worker is free again.
Return(w) ==
  /\ inv[w].pc = "done"
  /\ inv' = [inv EXCEPT ![w] = Idle]
  /\ UNCHANGED <<repo, stray, pool, workers, probesResp, healthResp>>

\* GET /v1/probes
ListProbes ==
  /\ \E order \in IterOrders(repo) : probesResp' = list_probes(repo, order)
  /\ UNCHANGED <<repo, stray, pool, workers, inv, healthResp>>

\* GET /health
HealthCheck ==
  /\ healthResp' = health_check
  /\ UNCHANGED <<repo, stray, pool, workers, inv, probesResp>>

(***************************************************************************)
(* The repositories and request bodies of the runs.                        *)
(***************************************************************************)
L2 == <<"2">>

L10 == <<"1", "0">>

LX == <<"x">>

LSup == <<"sup2">>

LayerNames == {L2, L10, LX, LSup}

\* What an entry of a model directory named "2" or "10" can be.
LayerEntries ==
  {FileEntry} \cup {LayerDir(c, p) : c \in BOOLEAN, p \in {NoPickle, "logreg"}}

ModelDirs ==
  {ModelDir(f) : f \in
     {g \in UNION {[S -> LayerEntries] : S \in SUBSET LayerNames} :
        /\ LX \in DOMAIN g => g[LX] = LayerDir(TRUE, "logreg")
        /\ LSup \in DOMAIN g => g[LSup] = LayerDir(FALSE, NoPickle)}}

SecondModels ==
  {ModelFile, ModelDir(<<>>), ModelDir(L2 :> LayerDir(TRUE, "logreg"))}

NoRepo == [exists |-> FALSE, models |-> <<>>]

CatalogRepos ==
  {NoRepo}
    \cup {[exists |-> TRUE, models |-> m] : m \in
           UNION {[S -> ModelDirs \cup SecondModels] : S \in SUBSET {"m1", "m2"}}
         \cap {m \in UNION {[S -> ModelDirs \cup SecondModels] : S \in SUBSET {"m1", "m2"}} :
                 /\ "m1" \in DOMAIN m => m["m1"] \in ModelDirs \cup {ModelFile}
                 /\ "m2" \in DOMAIN m => m["m2"] \in SecondModels}}

\* What model.pickle and config.json of m1/2 can be in the runs of the pipeline.
PipelineLayers ==
  {LayerDir(TRUE, k) : k \in Kinds} \cup {LayerDir(FALSE, "logreg")}

PipelineRepos ==
  {[exists |-> TRUE, models |-> ("m1" :> ModelDir(f))] :
     f \in {(L2 :> e) : e \in PipelineLayers}
           \cup {(L2 :> LayerDir(c, "logreg")) @@ (L10 :> LayerDir(TRUE, "softmax3")) :
                   c \in BOOLEAN}}

BaseRepo ==
  [exists |-> TRUE, models |-> ("m1" :> ModelDir(L2 :> LayerDir(TRUE, "logreg")))]

GoodList(val) == JList(RequiredLen, val, FALSE)

DefaultBody == Body("object", JStr("m1"), Missing, JInt(2), GoodList(1), GoodList(0))

PipelineBodies ==
  {Body("object", JStr(m), Missing, JInt(l), GoodList(a[1]), GoodList(a[2])) :
     m \in {"m1", "nope"}, l \in {2, 10}, a \in {<<0, 0>>, <<1, 0>>, <<0, 1>>}}

Lists ==
  {Missing, JStr("abc"), JList(0, 0, FALSE), JList(3, 0, FALSE), JList(3, 0, TRUE),
   GoodList(1), JList(RequiredLen, 1, TRUE), JList(RequiredLen + 1, 0, FALSE)}

ValidationBodies ==
  {Body("garbage", Missing, Missing, Missing, Missing, Missing),
   Body("array", Missing, Missing, Missing, Missing, Missing)}
    \cup {Body("object", m, pt, l, p, t) :
            m \in {Missing, JStr("m1"), JInt(7)},
            pt \in {Missing, JStr("custom"), JInt(7)},
            l \in {Missing, JInt(-1), JInt(2), JStr("two")},
            p \in Lists, t \in Lists}

\* Files outside the repository's layout: one below the root at the depth of a
\* layer directory, one beside the root, one elsewhere on the host, one below
\* a layer directory.
StrayFiles ==
  {[path |-> ProbesRoot \o <<"2", "model.pickle">>, pickle |-> "logreg"],
   [path |-> AppDir \o <<"models", "2", "model.pickle">>, pickle |-> "softmax3"],
   [path |-> <<"srv", "2", "model.pickle">>, pickle |-> "regressor"],
   [path |-> ProbesRoot \o <<"m1", "2", "10", "model.pickle">>, pickle |-> "onecol"]}

\* Schema-valid requests whose model string is not a directory name.
TraversalBodies ==
  {Body("object", JStr(m), Missing, JInt(l), GoodList(1), GoodList(0)) :
     m \in {"", "..", "m1/2", "/srv", "m1"}, l \in {2, 10}}

\* The bodies of a run: every body of ValidationBodies, or DefaultBody and one
\* more body.
AnyBody == [all |-> TRUE, body |-> DefaultBody]

DefaultAnd(b) == [all |-> FALSE, body |-> b]

Bodies(p) == IF p.all THEN ValidationBodies ELSE {p.body, DefaultBody}

InitCatalog == repo \in CatalogRepos /\ stray = {} /\ pool = DefaultAnd(DefaultBody) /\ workers = {1}

InitValidation == repo = BaseRepo /\ stray = {} /\ pool = AnyBody /\ workers = {1}

InitPipeline ==
  /\ repo \in PipelineRepos
  /\ stray = {}
  /\ \E b \in PipelineBodies : pool = DefaultAnd(b)
  /\ workers = Workers

InitTraversal ==
  /\ repo = BaseRepo
  /\ stray \in SUBSET StrayFiles
  /\ \E b \in TraversalBodies : pool = DefaultAnd(b)
  /\ workers = {1}

\* The host hands a request body to predict on a free worker.
Receive(w) ==
  /\ w \in workers
  /\ inv[w].pc = "idle"
  /\ \E b \in Bodies(pool) :
       inv' = [inv EXCEPT ![w] = [Idle EXCEPT !.pc = "validate", !.body = b]]
  /\ UNCHANGED <<repo, stray, pool, workers, probesResp, healthResp>>

Init ==
  /\ InitCatalog \/ InitValidation \/ InitPipeline \/ InitTraversal
  /\ inv = [w \in Workers |-> Idle]
  /\ probesResp = NoResp
  /\ healthResp = NoResp

Next ==
  \/ \E w \in Workers : Receive(w)
  \/ \E w \in Workers : Validate(w)
  \/ \E w \in Workers : Resolve(w)
  \/ \E w \in Workers : Load(w)
  \/ \E w \in Workers : Invoke(w)
  \/ \E w \in Workers : Respond(w)
  \/ \E w \in Workers : Return(w)
  \/ ListProbes
  \/ HealthCheck

Spec == Init /\ [][Next]_vars

(***************************************************************************)
(* Properties.                                                             *)
(***************************************************************************)
Done(w) == inv[w].pc = "done"

Answered(w, status) ==
  Done(w) /\ inv[w].result.kind = "response" /\ inv[w].result.status = status

Ascending(layers) == \A i, j \in 1..Len(layers) : i < j => layers[i] <= layers[j]

\* The layer directory `name` of model directory `model_dir` is usable: its
\* name is a non-negative base-10 integer and it holds both files.
Usable(model_dir, name) ==
  /\ IntParses(name)
  /\ model_dir.layers[name].isDir
  /\ model_dir.layers[name].config
  /\ model_dir.layers[name].pickle # NoPickle

UsablePairs(r) ==
  IF ~r.exists THEN {}
  ELSE {<<m, int(n)>> : <<m, n>> \in
          {<<m, n>> \in (DOMAIN r.models) \X LayerNames :
             /\ r.models[m].isDir
             /\ n \in DOMAIN r.models[m].layers
             /\ Usable(r.models[m], n)}}

\* The (model, layer) pairs of the catalog that list_probes returns, and whether
\* it returns one.
CatalogOf(r) == _discover_probes(r, CHOOSE o \in IterOrders(r) : TRUE)

CatalogPairs(r) ==
  UNION {{<<CatalogOf(r).probes[i].model, CatalogOf(r).probes[i].layers[j]>> :
            j \in 1..Len(CatalogOf(r).probes[i].layers)} :
         i \in 1..Len(CatalogOf(r).probes)}

\* C1: in every catalog that GET /v1/probes returns, the layers of every
\* model entry are in ascending numeric order.
C1_LayersAscending ==
  probesResp.status = 200 =>
    \A i \in 1..Len(probesResp.body.probes) :
      Ascending(probesResp.body.probes[i].layers)

\* C2: a schema-valid predict request whose (model, layer) pair is not in the
\* catalog is answered 404 with a message that holds the model and the layer.
C2_AbsentFromCatalogIs404 ==
  \A w \in Workers :
    (/\ Done(w)
     /\ RequestErrors(inv[w].body) = <<>>
     /\ CatalogOf(repo).exc = "none"
     /\ <<inv[w].body.model.s, inv[w].body.layer.n>> \notin CatalogPairs(repo))
    => /\ Answered(w, 404)
       /\ inv[w].result.body.error.model = inv[w].body.model.s
       /\ inv[w].result.body.error.layer = inv[w].body.layer.n

\* C3: whatever the request body, predict returns a response whose body is a
\* PredictResponse or has an "error" member; no exception leaves the handler.
C3_AlwaysJsonResponse ==
  \A w \in Workers :
    Done(w) =>
      /\ inv[w].result.kind = "response"
      /\ \/ /\ inv[w].result.status = 200
            /\ DOMAIN inv[w].result.body =
                 {"model", "probe_type", "layer", "predicted_probability"}
         \/ "error" \in DOMAIN inv[w].result.body

\* The members of a JSON object body that C4 names as offending: an
\* activation list whose length is not 4096, a negative layer, a missing
\* required member.
ActivationFields == {"primary_activations", "text_activations"}

RequiredFields == {"model", "layer"} \cup ActivationFields

Offending(b) ==
  {f \in RequiredFields : b[f] = Missing}
    \cup {f \in ActivationFields : b[f].t = "list" /\ b[f].len # RequiredLen}
    \cup {f \in {"layer"} : b[f].t = "int" /\ b[f].n < 0}

\* C4: a parseable request with an offending member is answered 400
\* "Validation failed" with a detail whose field is the member's name, and no
\* artifact is looked up or loaded.
C4_ViolationNamesField ==
  \A w \in Workers :
    (Done(w) /\ inv[w].body.kind = "object") =>
      \A f \in Offending(inv[w].body) :
        /\ Answered(w, 400)
        /\ inv[w].result.body.error.text = "Validation failed"
        /\ \E i \in 1..Len(inv[w].result.body.details) :
             inv[w].result.body.details[i].field = LocName(f)
        /\ inv[w].model_file = None
        /\ inv[w].probe_model = None

\* The request violates constraints of the kinds C5 lists only: its members
\* are absent or of the declared JSON type, and the lists hold numbers.
OnlyListedViolations(b) ==
  /\ b.kind = "object"
  /\ b.model.t \in {"missing", "str"}
  /\ b.probe_type.t \in {"missing", "str"}
  /\ b.layer.t \in {"missing", "int"}
  /\ \A f \in ActivationFields : b[f] = Missing \/ (b[f].t = "list" /\ ~b[f].bad)

\* The violated constraints of such a request: <<member, message>>.
Violations(b) ==
  {<<f, "Field required">> : f \in {g \in RequiredFields : b[g] = Missing}}
    \cup {<<f, "Value error, Activations must have exactly 4096 dimensions">> :
            f \in {g \in ActivationFields : b[g] # Missing /\ b[g].len # RequiredLen}}
    \cup {<<f, "Input should be greater than or equal to 0">> :
            f \in {g \in {"layer"} : b[g] # Missing /\ b[g].n < 0}}

C6_CatalogEntriesUsable ==
  probesResp.status = 200 =>
    \A i \in 1..Len(probesResp.body.probes) :
      LET e == probesResp.body.probes[i]
      IN  /\ e.layers # <<>>
          /\ e.model \in DOMAIN repo.models
          /\ repo.models[e.model].isDir
          /\ \A j \in 1..Len(e.layers) : <<e.model, e.layers[j]>> \in UsablePairs(repo)

\* A catalog was returned that lists one model and omits a model directory
\* that has entries but no usable layer.
C6_Witness ==
  /\ probesResp.status = 200
  /\ Len(probesResp.body.probes) = 1
  /\ \E m \in DOMAIN repo.models :
       /\ repo.models[m].isDir
       /\ DOMAIN repo.models[m].layers # {}
       /\ \A n \in DOMAIN repo.models[m].layers : ~Usable(repo.models[m], n)
       /\ m # probesResp.body.probes[1].model

\* C7: a 200 response of predict has predicted_probability in [0, 1] and
\* echoes the request's model, layer and probe_type, "linear_probe" when the
\* request has no probe_type.
C7_SuccessEchoesRequest ==
  \A w \in Workers :
    Answered(w, 200) =>
      /\ inv[w].result.body.predicted_probability >= 0
      /\ inv[w].result.body.predicted_probability <= 100
      /\ inv[w].result.body.model = inv[w].body.model.s
      /\ inv[w].result.body.layer = inv[w].body.layer.n
      /\ inv[w].result.body.probe_type =
           IF inv[w].body.probe_type = Missing THEN "linear_probe"
           ELSE inv[w].body.probe_type.s

C7_Witness ==
  \E w \in Workers :
    /\ Answered(w, 200)
    /\ inv[w].body.probe_type # Missing
    /\ inv[w].result.body.probe_type = "custom"

\* C8: for a loaded artifact the probability is column 1 of row 0 of
\* predict_proba when that method exists and the row has at least 2 columns,
\* column 0 when it has fewer, element 0 of predict when only predict exists;
\* with neither method the answer is the 500 unsupported-probe error and no
\* probability is produced.
C8_ProbabilitySelection ==
  \A w \in Workers :
    (inv[w].probe_model # None /\ inv[w].pc \in {"respond", "done"}) =>
      LET m == inv[w].probe_model
          d == [len |-> RequiredLen,
                val |-> inv[w].body.primary_activations.val
                          - inv[w].body.text_activations.val]
          row == PredictProbaRow(m, d)
      IN  IF m.kind \in {"logreg", "softmax3", "onecol"}
          THEN inv[w].predicted_probability =
                 Float(IF Len(row) >= 2 THEN row[2] ELSE row[1])
          ELSE IF m.kind = "regressor"
          THEN inv[w].predicted_probability = Float(PredictVector(m, d)[1])
          ELSE /\ inv[w].predicted_probability = None
               /\ Answered(w, 500)
               /\ inv[w].result.body.error.text = "Probe model does not support prediction"

C8_Witness ==
  \E w \in Workers :
    /\ Done(w)
    /\ inv[w].probe_model = Unpickled("softmax3")
    /\ inv[w].predicted_probability = Float(60)

\* The repository holds no usable (model, layer) directory.
NothingUsable(r) == UsablePairs(r) = {}

\* C9: when the repository root does not exist, or holds no usable
\* (model, layer) directory, GET /v1/probes answers 200 with an empty list.
C9_NothingUsableIsEmpty200 ==
  (probesResp # NoResp /\ NothingUsable(repo)) =>
    probesResp = [status |-> 200, body |-> [probes |-> <<>>]]

\* C10: two predict invocations with the same body have the same outcome,
\* whatever ran before them or runs beside them.
C10_SameRequestSameResult ==
  \A v, w \in Workers :
    (Done(v) /\ Done(w) /\ inv[v].body = inv[w].body) =>
      inv[v].result = inv[w].result

C10_Witness ==
  /\ \A w \in Workers : Answered(w, 200) /\ inv[w].body = DefaultBody
  /\ pool.body # DefaultBody
  /\ probesResp # NoResp
  /\ healthResp # NoResp

\* C11: predict answers 400 only when the request itself violates the
\* PredictRequest schema; an artifact whose result lies outside [0, 1] is an
\* internal error (500), not a 400 "Validation failed".
C11_BadRequestOnly400 ==
  \A w \in Workers :
    Answered(w, 400) => RequestErrors(inv[w].body) # <<>>

\* C12: for every schema-valid request, the artifact that predict finds and
\* deserializes is the file <probes_root>/<model>/<layer>/model.pickle inside
\* the repository root: no model string makes predict load a file outside the
\* root or at another depth.
C12_ArtifactInsideRepository ==
  \A w \in Workers :
    inv[w].probe_model # None =>
      Located(repo, stray, inv[w].model_file).path
        = ProbesRoot \o <<inv[w].request_data.model,
                          Text(str(inv[w].request_data.layer)), "model.pickle">>

====
